---- MODULE Spec2Model ----
(***************************************************************************)
(* Capture-and-inference loop of the gesture recognition app:              *)
(*   App            (state, handleCapture, toggleScanning, handleError)    *)
(*   WebcamCapture  (startCamera, camera effect, capture-loop effect)      *)
(*   analyzeGesture (the gateway to the remote oracle)                     *)
(*                                                                         *)
(* Conventions.                                                            *)
(*  - A confidence c is kept in hundredths (0.6 is 60, 1.5 is 150).        *)
(*  - A JavaScript value that reaches the App is a record                  *)
(*      [isNull, keys, gesture, confidence, description, emoji]            *)
(*    where keys is the set of properties the object has; `null` is the    *)
(*    record NullValue.  A property that is absent reads as `undefined`.   *)
(*  - One handler is one action.  The commit of the state it sets and the  *)
(*    effects React runs for that commit are part of the action: the       *)
(*    camera effect depends on startCamera, which depends on the onError   *)
(*    prop, which is a new function on every render of App, so every       *)
(*    render of App re-runs the camera effect (a new getUserMedia call).   *)
(*    State set in one handler step is committed in one render.            *)
(***************************************************************************)
EXTENDS Integers, Sequences, FiniteSets, TLC

VARIABLES
    appState,         \* App: AppState (IDLE, SCANNING, ERROR)
    currentResult,    \* App: GestureResponse | null
    history,          \* App: HistoryItem[], newest first
    isProcessing,     \* App: the displayed "processing" flag
    isProcessingRef,  \* App: isProcessingRef.current, the single-flight guard
    errorMsg,         \* App: string | null
    streamActive,     \* WebcamCapture: streamActive
    permissionDenied, \* WebcamCapture: permissionDenied
    timers,           \* registered setInterval callbacks, each the closure of its captureFrame
    inflight,         \* ids of the analyzeGesture calls awaiting the oracle
    acquiring,        \* number of getUserMedia calls not yet settled
    issued,           \* number of analyzeGesture calls issued so far
    now,              \* the last reading of Date.now()
    lastOp,           \* the handler that ran last: its name, the appState it
                      \* started from, whether it issued an analyzeGesture call
                      \* and whether the video had a frame for it
    lastReply,        \* the oracle's reply consumed by the last completed call
    source,           \* for each entry of history, the id of the call it came from
    clock,            \* elapsed time in ms (advances in SpecTimed only)
    due,              \* the time the registered interval fires next ({} if none)
    issueLog          \* the times at which analyzeGesture calls were issued

vars == <<appState, currentResult, history, isProcessing, isProcessingRef,
          errorMsg, streamActive, permissionDenied, timers, inflight,
          acquiring, issued, now, lastOp, lastReply, source, clock, due,
          issueLog>>

\* ------------------------------------------------------------------ bounds
MaxCalls == 3        \* analyzeGesture calls issued in a behaviour of Spec
MaxAcquire == 2      \* getUserMedia calls outstanding at once
FillCalls == 22      \* analyzeGesture calls issued in a behaviour of SpecFill
LiveCalls == 3       \* analyzeGesture calls issued in a behaviour of SpecLive
TimedCalls == 3      \* analyzeGesture calls issued in a behaviour of SpecTimed
MaxClockMs == 3002   \* SpecTimed: time does not advance past this
MaxJitterMs == 2     \* SpecTimed: 1 ms steps are taken only this far into a period

\* --------------------------------------------------------------- constants
HistoryCap == 20     \* slice(0, 20)
Threshold == 60      \* result.confidence > 0.6, in hundredths
TickPeriodMs == 1500 \* setInterval(captureFrame, 1500)

NoMsg == "null"
CameraMsg == "Camera access denied or unavailable."

\* ------------------------------------------------------- JavaScript values
AllKeys == {"gesture", "confidence", "description", "emoji"}

NullValue ==
    [isNull |-> TRUE, keys |-> {}, gesture |-> "undefined", confidence |-> 0,
     description |-> "undefined", emoji |-> "undefined"]

Obj(g, c, ks) ==
    [isNull |-> FALSE, keys |-> ks, gesture |-> IF "gesture" \in ks THEN g ELSE "undefined",
     confidence |-> IF "confidence" \in ks THEN c ELSE 0,
     description |-> IF "description" \in ks THEN "d" ELSE "undefined",
     emoji |-> IF "emoji" \in ks THEN "e" ELSE "undefined"]

\* The fallback literal of analyzeGesture's catch block.
ErrorFallback ==
    [isNull |-> FALSE, keys |-> AllKeys, gesture |-> "Error", confidence |-> 0,
     description |-> "Failed to analyze frame.", emoji |-> "warning"]

\* ------------------------------------------------------------- the oracle
\* What ai.models.generateContent does for one request: it throws (transport
\* or oracle-side failure) or resolves to a response whose text is `text`.
Reply(thrown, text) == [thrown |-> thrown, text |-> text]

NoReply == Reply(FALSE, "(no call completed yet)")

TransportFailure == Reply(TRUE, "")
EmptyText == Reply(FALSE, "")
NotJson == Reply(FALSE, "<html>")
JsonNull == Reply(FALSE, "null")
Fist61 == Reply(FALSE, "Fist 0.61")
Fist60 == Reply(FALSE, "Fist 0.60")
None95 == Reply(FALSE, "None 0.95")
Fist150 == Reply(FALSE, "Fist 1.5")
FistBare == Reply(FALSE, "Fist 0.9, no description, no emoji")

FailureReplies == {TransportFailure, EmptyText, NotJson}
Replies == FailureReplies \cup {JsonNull, Fist61, Fist60, None95, Fist150, FistBare}
FillReplies == {Fist61}

\* JSON.parse on the response texts above: ok is FALSE where it throws.
JSONParse(text) ==
    CASE text = "null" -> [ok |-> TRUE, value |-> NullValue]
      [] text = "Fist 0.61" -> [ok |-> TRUE, value |-> Obj("Fist", 61, AllKeys)]
      [] text = "Fist 0.60" -> [ok |-> TRUE, value |-> Obj("Fist", 60, AllKeys)]
      [] text = "None 0.95" -> [ok |-> TRUE, value |-> Obj("None", 95, AllKeys)]
      [] text = "Fist 1.5" -> [ok |-> TRUE, value |-> Obj("Fist", 150, AllKeys)]
      [] text = "Fist 0.9, no description, no emoji" ->
            [ok |-> TRUE, value |-> Obj("Fist", 90, {"gesture", "confidence"})]
      [] OTHER -> [ok |-> FALSE, value |-> NullValue]

\* ---------------------------------------------------------- analyzeGesture
Returned(v) == [thrown |-> FALSE, value |-> v]
Raised == [thrown |-> TRUE, value |-> NullValue]

\* Variant of analyzeGesture: JSON.parse outside the try block, so that its
\* throw reaches the caller.
analyzeGesture_ParseUncaught(reply) ==
    IF reply.thrown THEN Returned(ErrorFallback)
    ELSE IF reply.text = "" THEN Returned(ErrorFallback)
    ELSE IF ~JSONParse(reply.text).ok THEN Raised
    ELSE Returned(JSONParse(reply.text).value)

\* The whole body is inside try: a throw of generateContent, the throw on an
\* empty text and a throw of JSON.parse all land in the catch block, which
\* returns the fallback.  A text that parses is returned as parsed.
analyzeGesture(reply) ==
    IF reply.thrown THEN Returned(ErrorFallback)
    ELSE IF reply.text = "" THEN Returned(ErrorFallback)
    ELSE IF ~JSONParse(reply.text).ok THEN Returned(ErrorFallback)
    ELSE Returned(JSONParse(reply.text).value)

\* ------------------------------------------------------------ App helpers
\* Variant of Accepts: the comparison written >= instead of >.
Accepts_AtLeast(result) ==
    /\ result.gesture # "None"
    /\ result.gesture # "Error"
    /\ "confidence" \in result.keys
    /\ result.confidence >= Threshold

\* result.confidence > 0.6; `undefined > 0.6` is false.
Accepts(result) ==
    /\ result.gesture # "None"
    /\ result.gesture # "Error"
    /\ "confidence" \in result.keys
    /\ result.confidence > Threshold

\* Variant of Keep: the slice one entry too long.
Keep_OneMore(items) ==
    SubSeq(items, 1, IF Len(items) < HistoryCap + 1 THEN Len(items) ELSE HistoryCap + 1)

\* [newItem, ...prev].slice(0, 20)
Keep(items) ==
    SubSeq(items, 1, IF Len(items) < HistoryCap THEN Len(items) ELSE HistoryCap)

HistoryItem(t, result) == [timestamp |-> t, result |-> result]

\* Variant of GuardOpen: handleCapture without its early return.
GuardOpen_Unchecked == TRUE

\* if (isProcessingRef.current) return;
GuardOpen == ~isProcessingRef

\* Variant of ButtonEnabled: the button without its disabled attribute.
ButtonEnabled_Always == TRUE

\* disabled={appState === AppState.ERROR} on the start/stop button
ButtonEnabled == appState # "ERROR"

\* Variant of ToggledResult: both branches clear currentResult.
ToggledResult_AlwaysCleared(state, cur) == NullValue

\* toggleScanning: the stop branch sets currentResult to null, the start
\* branch does not touch it.
ToggledResult(state, cur) == IF state = "SCANNING" THEN NullValue ELSE cur

\* Variant of ToggledHistory: the stop branch also empties the history.
ToggledHistory_ClearedOnStop(state, items) ==
    IF state = "SCANNING" THEN << >> ELSE items

\* toggleScanning calls setAppState, setCurrentResult and setErrorMsg only:
\* neither branch calls setHistory.
ToggledHistory(state, items) == items

\* Variant of ClearInterval: the effect returns no cleanup.
ClearInterval_Missing(ts) == ts

\* return () => clearInterval(interval)
ClearInterval(ts) == {}

\* handleCapture after the await: setCurrentResult(result) runs unless
\* analyzeGesture threw.
Shown(r, cur) == IF r.thrown THEN cur ELSE r.value

\* Variant of Ingested: a result that arrives when not scanning is dropped.
Ingested_OnlyWhileScanning(r) ==
    appState = "SCANNING" /\ ~r.thrown /\ ~r.value.isNull /\ Accepts(r.value)

\* handleCapture after the await: the history updater runs if nothing threw
\* (reading result.gesture of null throws a TypeError, caught below) and the
\* acceptance test passes.
Ingested(r) == ~r.thrown /\ ~r.value.isNull /\ Accepts(r.value)

\* Variant of Prepend: the new item put behind the old ones.
Prepend_AtTail(item, prev) == prev \o <<item>>

\* [newItem, ...prev]
Prepend(item, prev) == <<item>> \o prev

\* Variant of GuardAfter: the guard released in the try block after a good
\* result only, not in finally.
GuardAfter_KeptOnError(r) == r.thrown \/ r.value.gesture = "Error"

\* finally { isProcessingRef.current = false }
GuardAfter(r) == FALSE

Op(name, from, call, frame) ==
    [name |-> name, from |-> from, call |-> call, frame |-> frame]

\* The closure of captureFrame made by one run of the capture-loop effect.
Closure(scanning, active) == [isScanning |-> scanning, streamActive |-> active]

\* Variant of Reaches: no test of the video's dimensions.
Reaches_NoDimensionTest(clo, frameOk) == clo.isScanning /\ clo.streamActive

\* captureFrame reaches onCapture(imageData): its early return is not taken
\* and the video has a 2d context and nonzero dimensions (frameOk).
Reaches(clo, frameOk) == clo.isScanning /\ clo.streamActive /\ frameOk

\* ------------------------------------------------------------------- Init
\* The state after the first render and its effects: the camera effect has
\* called startCamera, the capture-loop effect did nothing (isScanning false).
Init ==
    /\ appState = "IDLE"
    /\ currentResult = NullValue
    /\ history = <<>>
    /\ isProcessing = FALSE
    /\ isProcessingRef = FALSE
    /\ errorMsg = NoMsg
    /\ streamActive = FALSE
    /\ permissionDenied = FALSE
    /\ timers = {}
    /\ inflight = {}
    /\ acquiring = 1
    /\ issued = 0
    /\ now = 0
    /\ lastOp = Op("mount", "IDLE", FALSE, FALSE)
    /\ lastReply = NoReply
    /\ source = <<>>
    /\ clock = 0
    /\ due = {}
    /\ issueLog = <<>>

\* ---------------------------------------------------------------- actions
\* handleCapture up to its await: the guard is taken and the call is issued.
\* The state it sets renders App once more.
HandleCaptureBegin ==
    /\ isProcessingRef' = TRUE
    /\ isProcessing' = TRUE
    /\ errorMsg' = NoMsg
    /\ inflight' = inflight \cup {issued + 1}
    /\ issued' = issued + 1

\* One run of captureFrame with closure clo.  `msg` is the error message the
\* handler has set so far, `acq` the getUserMedia calls left outstanding by it
\* and `renders` the renders of App it has caused.
CaptureFrame(clo, frameOk, lim, msg, acq, renders) ==
    IF Reaches(clo, frameOk) /\ GuardOpen
    THEN /\ issued < lim
         /\ HandleCaptureBegin
         /\ acquiring' = acq + renders + 1
    ELSE /\ UNCHANGED <<isProcessingRef, isProcessing, inflight, issued>>
         /\ errorMsg' = msg
         /\ acquiring' = acq + renders

\* Variant of CaptureEffect: the interval is set but captureFrame is not
\* called at once.
CaptureEffect_NoImmediate(scanning, active, frameOk, lim, msg, acq, renders) ==
    /\ timers' = IF scanning
                 THEN ClearInterval(timers) \cup {Closure(scanning, active)}
                 ELSE ClearInterval(timers)
    /\ UNCHANGED <<isProcessingRef, isProcessing, inflight, issued>>
    /\ errorMsg' = msg
    /\ acquiring' = acq + renders

\* The capture-loop effect re-run after a commit that changed isScanning or
\* streamActive: the cleanup of the previous run, then, when scanning, one
\* immediate captureFrame and a new interval.
CaptureEffect(scanning, active, frameOk, lim, msg, acq, renders) ==
    IF scanning
    THEN /\ timers' = ClearInterval(timers) \cup {Closure(scanning, active)}
         /\ CaptureFrame(Closure(scanning, active), frameOk, lim, msg, acq, renders)
    ELSE /\ timers' = ClearInterval(timers)
         /\ UNCHANGED <<isProcessingRef, isProcessing, inflight, issued>>
         /\ errorMsg' = msg
         /\ acquiring' = acq + renders

\* toggleScanning, start branch.
Start(lim) ==
    /\ ButtonEnabled
    /\ appState # "SCANNING"
    /\ appState' = "SCANNING"
    /\ currentResult' = ToggledResult(appState, currentResult)
    /\ \E frameOk \in BOOLEAN :
          /\ CaptureEffect(TRUE, streamActive, frameOk, lim, NoMsg, acquiring, 1)
          /\ lastOp' = Op("start", appState, issued' # issued, frameOk)
    /\ acquiring' <= MaxAcquire
    /\ history' = ToggledHistory(appState, history)
    /\ UNCHANGED <<streamActive, permissionDenied, now, lastReply, source>>

\* Variant of Stop: disarming also clears the single-flight guard.
Stop_ClearsGuard ==
    /\ ButtonEnabled
    /\ appState = "SCANNING"
    /\ appState' = "IDLE"
    /\ currentResult' = ToggledResult(appState, currentResult)
    /\ timers' = ClearInterval(timers)
    /\ isProcessingRef' = FALSE
    /\ acquiring' = acquiring + 1
    /\ acquiring' <= MaxAcquire
    /\ lastOp' = Op("stop", appState, FALSE, FALSE)
    /\ UNCHANGED <<history, streamActive, permissionDenied, now, lastReply, source,
                   isProcessing, inflight, issued, errorMsg>>

\* toggleScanning, stop branch.
Stop ==
    /\ ButtonEnabled
    /\ appState = "SCANNING"
    /\ appState' = "IDLE"
    /\ currentResult' = ToggledResult(appState, currentResult)
    /\ CaptureEffect(FALSE, streamActive, FALSE, 0, errorMsg, acquiring, 1)
    /\ acquiring' <= MaxAcquire
    /\ lastOp' = Op("stop", appState, FALSE, FALSE)
    /\ history' = ToggledHistory(appState, history)
    /\ UNCHANGED <<streamActive, permissionDenied, now, lastReply, source>>

\* One firing of a registered interval; frames are the answers the video
\* may give to "is there a frame".
Tick(lim, frames) ==
    /\ \E clo \in timers, frameOk \in frames :
          /\ CaptureFrame(clo, frameOk, lim, errorMsg, acquiring, 0)
          /\ lastOp' = Op("tick", appState, issued' # issued, frameOk)
    /\ acquiring' <= MaxAcquire
    /\ UNCHANGED <<appState, currentResult, history, streamActive,
                   permissionDenied, timers, now, lastReply, source>>

\* handleCapture from its await on: analyzeGesture settles for call c.
Complete(replies, dts) ==
    /\ acquiring < MaxAcquire
    /\ \E c \in inflight, reply \in replies, dt \in dts :
          LET r == analyzeGesture(reply)
          IN  /\ inflight' = inflight \ {c}
              /\ currentResult' = Shown(r, currentResult)
              /\ now' = IF Ingested(r) THEN now + dt ELSE now
              /\ history' = IF Ingested(r)
                            THEN Keep(Prepend(HistoryItem(now', r.value), history))
                            ELSE history
              /\ source' = IF Ingested(r) THEN Keep(Prepend(c, source)) ELSE source
              /\ lastReply' = reply
              /\ isProcessingRef' = GuardAfter(r)
    /\ isProcessing' = FALSE
    /\ acquiring' = acquiring + 1
    /\ lastOp' = Op("complete", appState, FALSE, FALSE)
    /\ UNCHANGED <<appState, errorMsg, streamActive, permissionDenied, timers, issued>>

\* startCamera: getUserMedia resolves.
Acquired(lim) ==
    /\ acquiring > 0
    /\ streamActive' = TRUE
    /\ permissionDenied' = FALSE
    /\ IF streamActive
       THEN UNCHANGED <<timers, isProcessingRef, isProcessing, inflight, issued, errorMsg>>
            /\ acquiring' = acquiring - 1
       ELSE \E frameOk \in BOOLEAN :
               CaptureEffect(appState = "SCANNING", TRUE, frameOk, lim, errorMsg,
                             acquiring - 1, 0)
    /\ acquiring' <= MaxAcquire
    /\ lastOp' = Op("acquired", appState, issued' # issued, FALSE)
    /\ UNCHANGED <<appState, currentResult, history, now, lastReply, source>>

\* startCamera: getUserMedia rejects, the catch block calls onError, which is
\* handleError.  App renders again only if its state changed.
Denied ==
    /\ acquiring > 0
    /\ permissionDenied' = TRUE
    /\ appState' = "ERROR"
    /\ errorMsg' = CameraMsg
    /\ acquiring' = IF appState = "ERROR" /\ errorMsg = CameraMsg
                    THEN acquiring - 1 ELSE acquiring
    /\ timers' = IF appState = "SCANNING" THEN ClearInterval(timers) ELSE timers
    /\ lastOp' = Op("denied", appState, FALSE, FALSE)
    /\ UNCHANGED <<currentResult, history, isProcessing, isProcessingRef,
                   streamActive, inflight, issued, now, lastReply, source>>

\* The "Retry Permission" button, rendered while permissionDenied: onClick is
\* startCamera.  It sets no state of its own.
Retry ==
    /\ permissionDenied
    /\ acquiring < MaxAcquire
    /\ acquiring' = acquiring + 1
    /\ lastOp' = Op("retry", appState, FALSE, FALSE)
    /\ UNCHANGED <<appState, currentResult, history, isProcessing, isProcessingRef,
                   errorMsg, streamActive, permissionDenied, timers, inflight,
                   issued, now, lastReply, source>>

\* Time is not observed: a step of Spec, SpecFill or SpecLive.
Untimed == UNCHANGED <<clock, due, issueLog>>

Next ==
    \/ Start(MaxCalls) /\ Untimed
    \/ Stop /\ Untimed
    \/ Tick(MaxCalls, BOOLEAN) /\ Untimed
    \/ Complete(Replies, {0, 1}) /\ Untimed
    \/ Acquired(MaxCalls) /\ Untimed
    \/ Denied /\ Untimed
    \/ Retry /\ Untimed

Spec == Init /\ [][Next]_vars

\* The same program with an oracle that always recognises a gesture and a
\* clock that advances between two completions: long enough behaviours to
\* fill History.
NextFill ==
    \/ Start(FillCalls) /\ Untimed
    \/ Stop /\ Untimed
    \/ Tick(FillCalls, BOOLEAN) /\ Untimed
    \/ Complete(FillReplies, {1}) /\ Untimed
    \/ Acquired(FillCalls) /\ Untimed
    \/ Denied /\ Untimed
    \/ Retry /\ Untimed

SpecFill == Init /\ [][NextFill]_vars

\* ------------------------------------------------------------ timed steps
TimedReplies == {None95}

\* A handler's step as seen by the clock: handlers take no time; an interval
\* fires when it is due and is then due one period later; a run of the
\* capture-loop effect that sets a new interval makes it due one period from
\* now; clearing the interval leaves nothing due.  The oracle takes at least
\* 1 ms to answer.
Timed ==
    /\ clock' = clock
    /\ lastOp'.name = "tick" => clock \in due
    /\ \A c \in inflight \ inflight' : issueLog[c] < clock
    /\ issueLog' = IF issued' # issued THEN Append(issueLog, clock) ELSE issueLog
    /\ due' = IF timers' = {} THEN {}
              ELSE IF lastOp'.name = "tick" THEN {clock + TickPeriodMs}
              ELSE IF timers' # timers THEN {clock + TickPeriodMs}
              ELSE due

\* Time passes: 1 ms, a whole period, or up to the moment the interval is
\* due.  It does not pass the moment an interval is due before it has fired.
Elapse ==
    /\ \E d \in {1, TickPeriodMs} \cup {t - clock : t \in due} :
          /\ d > 0
          /\ d = 1 => clock % TickPeriodMs < MaxJitterMs
          /\ \A t \in due : clock + d <= t
          /\ clock + d <= MaxClockMs
          /\ clock' = clock + d
    /\ lastOp' = Op("elapse", appState, FALSE, FALSE)
    /\ UNCHANGED <<appState, currentResult, history, isProcessing, isProcessingRef,
                   errorMsg, streamActive, permissionDenied, timers, inflight,
                   acquiring, issued, now, lastReply, source, due, issueLog>>

NextTimed ==
    \/ Start(TimedCalls) /\ Timed
    \/ Stop /\ Timed
    \/ Tick(TimedCalls, BOOLEAN) /\ Timed
    \/ Complete(TimedReplies, {0, 1}) /\ Timed
    \/ Acquired(TimedCalls) /\ Timed
    \/ Denied /\ Timed
    \/ Retry /\ Timed
    \/ Elapse

SpecTimed == Init /\ [][NextTimed]_vars

\* ------------------------------------------------------------- fair runs
\* An oracle that fails every request.
LiveReplies == {TransportFailure, NotJson}

NextLive ==
    \/ Start(LiveCalls) /\ Untimed
    \/ Stop /\ Untimed
    \/ Tick(LiveCalls, BOOLEAN) /\ Untimed
    \/ Complete(LiveReplies, {0, 1}) /\ Untimed
    \/ Acquired(LiveCalls) /\ Untimed
    \/ Denied /\ Untimed
    \/ Retry /\ Untimed

\* The interval keeps firing and the video keeps having frames, every
\* analyzeGesture call settles, every getUserMedia call settles.
Fairness ==
    /\ WF_vars(Tick(LiveCalls, {TRUE}) /\ Untimed)
    /\ WF_vars(Complete(LiveReplies, {0, 1}) /\ Untimed)
    /\ WF_vars((Acquired(LiveCalls) \/ Denied) /\ Untimed)

SpecLive == Init /\ [][NextLive]_vars /\ Fairness

\* ================================================================= claims
\* The Classification a completed call handed to handleCapture.
ReturnedBy(reply) == analyzeGesture(reply).value

\* The acceptance policy as the specification words it.
PolicyHolds(c) == c.gesture \notin {"None", "Error"} /\ c.confidence > 60

IsCompletion(op) == op.name = "complete"
IsStart(op) == op.name = "start"

\* C1: in every reachable state at most one analyzeGesture call is
\* outstanding, whatever the interleaving of ticks, completions, start, stop
\* and fail (a start that follows a stop while a call is in flight included).
C1_AtMostOneOutstanding == Cardinality(inflight) <= 1

\* C1 witness: a start that issued nothing because the call of an earlier
\* Running period is still in flight.
C1_Witness ==
    /\ IsStart(lastOp) /\ ~lastOp.call
    /\ streamActive
    /\ Cardinality(inflight) = 1
    /\ isProcessingRef

\* C2: History never holds more than 20 entries, and an accepted completion
\* that finds 20 entries puts the new entry at the head, keeps the 19 newest
\* old entries in their order behind it and drops exactly the oldest one.
C2_CapacityAndEviction ==
    /\ [](Len(history) <= 20)
    /\ [][(IsCompletion(lastOp') /\ Len(history) = 20 /\ PolicyHolds(ReturnedBy(lastReply')))
            => /\ Len(history') = 20
               /\ history'[1].result = ReturnedBy(lastReply')
               /\ \A i \in 1..19 : history'[i + 1] = history[i]
               /\ \A i \in 1..20 : history'[i] # history[20]]_vars

\* C2 witness: History is full after the 21st accepted completion: the first
\* entry ever added (timestamp 1) is gone, the second is now the oldest.
C2_Witness ==
    /\ IsCompletion(lastOp)
    /\ Len(history) = 20
    /\ history[20].timestamp = 2
    /\ history[1].timestamp = 21

\* C3: a completion adds exactly one entry, at the head, if and only if the
\* returned label is neither None nor Error and the confidence is strictly
\* above 0.6; every other completion leaves History as it was.  Equal
\* consecutive accepted results are not merged.
C3_AddedIffPolicy ==
    [][IsCompletion(lastOp')
         => IF PolicyHolds(ReturnedBy(lastReply'))
            THEN /\ Len(history') = Len(history) + 1
                 /\ Tail(history') = history
                 /\ Head(history').result = ReturnedBy(lastReply')
            ELSE history' = history]_vars

\* C3 witness: two equal accepted results (Fist, 0.61) were both added, then
\* (Fist, 0.60) completed and was not.
C3_Witness ==
    /\ IsCompletion(lastOp)
    /\ lastReply = Fist60
    /\ Len(history) = 2
    /\ history[1].result = history[2].result
    /\ history[1].result.confidence = 61

\* C4 as stated: current result always is the Classification returned by the
\* most recently completed call.
C4_AlwaysLatestCompleted ==
    lastReply # NoReply => currentResult = ReturnedBy(lastReply)

\* C4 amended: every completion sets current result to the Classification the
\* call returned, accepted into History or not (None and Error included);
\* stop() clears it; every other step leaves it as it is.
C4_LatestUntilStop ==
    [][/\ IsCompletion(lastOp') => currentResult' = ReturnedBy(lastReply')
       /\ lastOp'.name = "stop" => currentResult' = NullValue
       /\ lastOp'.name \notin {"complete", "stop"} => currentResult' = currentResult]_vars

\* C4 witness: a None result, rejected from History, is the current result.
C4_Witness ==
    /\ IsCompletion(lastOp)
    /\ lastReply = None95
    /\ currentResult.gesture = "None"
    /\ currentResult.confidence = 95
    /\ history = << >>

\* C5: a call whose request fails, whose response text is empty or whose text
\* does not parse still completes normally: the fixed sentinel (Error, 0,
\* "Failed to analyze frame.") becomes current result and History is untouched.
C5_FailureYieldsSentinel ==
    [][(IsCompletion(lastOp')
          /\ (lastReply'.thrown \/ lastReply'.text = "" \/ lastReply'.text = "<html>"))
         => /\ ~currentResult'.isNull
            /\ currentResult'.gesture = "Error"
            /\ currentResult'.confidence = 0
            /\ currentResult'.description = "Failed to analyze frame."
            /\ history' = history
            /\ ~isProcessingRef']_vars

\* C5 witness: an unparsable response completed while History held an entry
\* and a different result was showing before.
C5_Witness ==
    /\ IsCompletion(lastOp)
    /\ lastReply = NotJson
    /\ currentResult = ErrorFallback
    /\ Len(history) = 1

\* C6 as stated: every Classification that reaches current result or History
\* has all four required fields and a confidence within [0, 1].
C6_ValidatedResponse ==
    /\ ~currentResult.isNull
         => currentResult.keys = AllKeys /\ currentResult.confidence \in 0..100
    /\ \A i \in 1..Len(history) :
          /\ history[i].result.keys = AllKeys
          /\ history[i].result.confidence \in 0..100

\* C7: a call is issued only in a step that leaves the phase Running; hence
\* after stop() or fail() no call is issued before a later start(), whatever
\* ticks and completions happen in between.
C7_IssuedOnlyWhileRunning ==
    [][issued' # issued
         => /\ appState' = "SCANNING"
            /\ lastOp'.name \in {"start", "tick", "acquired"}
            /\ lastOp'.name # "start" => appState = "SCANNING"]_vars

\* C7 witness: the session was stopped with a call in flight, the call has
\* completed and released the guard, and no interval is left to issue another.
C7_Witness ==
    /\ IsCompletion(lastOp)
    /\ appState = "IDLE"
    /\ streamActive
    /\ ~isProcessingRef
    /\ inflight = {}
    /\ timers = {}

\* C8: stop() cancels no call (a call leaves the outstanding set only by
\* completing), and a call that completes while the phase is not Running is
\* ingested like any other: current result is set to its result and, if the
\* policy accepts it, it is put at the head of History.
C8_InFlightSurvivesStop ==
    [][/\ ~IsCompletion(lastOp') => inflight \subseteq inflight'
       /\ (IsCompletion(lastOp') /\ appState # "SCANNING")
            => /\ currentResult' = ReturnedBy(lastReply')
               /\ PolicyHolds(ReturnedBy(lastReply'))
                    => /\ Len(history') = Len(history) + 1
                       /\ history'[1].result = ReturnedBy(lastReply')]_vars

\* C8 witness: the phase is Idle and the accepted result of the call that was
\* in flight at stop() is both the current result and the head of History.
C8_Witness ==
    /\ IsCompletion(lastOp)
    /\ lastOp.from = "IDLE"
    /\ appState = "IDLE"
    /\ lastReply = Fist61
    /\ Len(history) = 1
    /\ currentResult = history[1].result

\* C9 as stated: right after every start() the current result and the error
\* message are both empty.
C9_StartClears ==
    [][IsStart(lastOp') => currentResult' = NullValue /\ errorMsg' = NoMsg]_vars

\* C10: fail() moves the phase to Failed from whatever phase it was, and
\* while the phase is Failed it does not become Running and no call is issued.
C10_FailedBlocksStart ==
    [][/\ lastOp'.name = "denied" => appState' = "ERROR" /\ errorMsg' = CameraMsg
       /\ appState = "ERROR" => /\ appState' # "SCANNING"
                                /\ ~IsStart(lastOp')
                                /\ issued' = issued]_vars

\* C10 witness: fail() arrived while the phase was Running with a call in
\* flight; the phase is Failed and the interval is gone.
C10_Witness ==
    /\ lastOp.name = "denied"
    /\ lastOp.from = "SCANNING"
    /\ appState = "ERROR"
    /\ streamActive
    /\ inflight # {}
    /\ timers = {}

IsTick(op) == op.name = "tick"

\* C11 as stated: when the user's retry of the device acquisition succeeds
\* while the phase is Failed, the phase leaves Failed.  (Before the step the
\* only getUserMedia call outstanding is the one the retry button started.)
C11_RetryLeavesFailed ==
    [][(lastOp.name = "retry" /\ acquiring = 1 /\ appState = "ERROR"
          /\ lastOp'.name = "acquired")
         => appState' # "ERROR"]_vars

CeilDiv(a, b) == (a + b - 1) \div b

\* C12 as stated: the calls issued within any window of T ms number at most
\* ceil(T / 1500) + 1.  (Calls i..j of the log all lie in a window of
\* issueLog[j] - issueLog[i] + 1 ms.)
C12_RateBound ==
    \A i, j \in 1..Len(issueLog) :
        i <= j => j - i + 1 <= CeilDiv(issueLog[j] - issueLog[i] + 1, 1500) + 1

Unaffected ==
    UNCHANGED <<appState, currentResult, history, isProcessing, isProcessingRef,
                errorMsg, streamActive, permissionDenied, timers, inflight,
                acquiring, issued, now, lastReply, source>>

\* C13: a tick that fires while the guard is set changes nothing (no call,
\* guard, current result, History, error message and phase as before), and
\* the completion that releases the guard issues no call itself: the next call
\* comes from a later capture attempt.
C13_DroppedTickNoEffect ==
    [][/\ (IsTick(lastOp') /\ isProcessingRef) => Unaffected
       /\ IsCompletion(lastOp') => issued' = issued /\ inflight' \subseteq inflight]_vars

\* C13 witness: a tick with a frame available was dropped while call 1 was
\* outstanding.
C13_Witness ==
    /\ IsTick(lastOp) /\ lastOp.frame /\ ~lastOp.call
    /\ streamActive
    /\ isProcessingRef
    /\ inflight = {1}
    /\ issued = 1

\* C14: the guard is set exactly when one call is outstanding; it changes
\* only in a step that issues a call or completes one, so start(), stop() and
\* fail() by themselves leave it alone and a call that has not completed
\* keeps every later capture attempt out, also after stop() and start().
C14_GuardIffOutstanding ==
    /\ [](isProcessingRef <=> Cardinality(inflight) = 1)
    /\ [][isProcessingRef' # isProcessingRef
            => (issued' # issued \/ IsCompletion(lastOp'))]_vars

\* C14 witness: after stop() and a new start() the first call is still
\* outstanding, the guard is still set and the start issued nothing.
C14_Witness ==
    /\ IsStart(lastOp) /\ lastOp.frame /\ ~lastOp.call
    /\ lastOp.from = "IDLE"
    /\ streamActive
    /\ isProcessingRef
    /\ inflight = {1}
    /\ issued = 1
    /\ timers # {}

\* C15: a tick for which no frame can be had (stream not active, or a video
\* without dimensions) changes nothing: no call, guard, phase and error
\* message as before; a tick that does find a frame, while Running with the
\* stream active and the guard free, issues a call.
C15_SkippedTickSilent ==
    [][/\ (IsTick(lastOp') /\ (~lastOp'.frame \/ ~streamActive)) => Unaffected
       /\ (IsTick(lastOp') /\ lastOp'.frame /\ streamActive /\ ~isProcessingRef
             /\ appState = "SCANNING")
            => issued' = issued + 1 /\ isProcessingRef' /\ inflight' # {}]_vars

\* C15 witness: Running with the stream active and no call outstanding, a
\* tick found no frame and nothing was issued.
C15_Witness ==
    /\ IsTick(lastOp) /\ ~lastOp.frame
    /\ appState = "SCANNING"
    /\ streamActive
    /\ ~isProcessingRef
    /\ inflight = {}

\* C16: with an oracle that fails every request, as long as the session stays
\* Running with the stream active the next call is always issued (the n-th
\* call is followed by the (n+1)-th unless the session leaves Running), and
\* no completion changes the phase.
C16_KeepsIssuing ==
    /\ \A n \in 0..(LiveCalls - 1) :
          (issued = n /\ appState = "SCANNING" /\ streamActive)
             ~> (issued > n \/ appState # "SCANNING")
    /\ [][IsCompletion(lastOp') => appState' = appState]_vars

\* C16 witness: two calls have completed with the sentinel, the session is
\* still Running and a tick has just issued the third call.
C16_Witness ==
    /\ IsTick(lastOp) /\ lastOp.call
    /\ appState = "SCANNING"
    /\ issued = 3
    /\ inflight = {3}
    /\ currentResult = ErrorFallback
    /\ history = << >>

\* C17: a start() with the stream active, a frame available and no call
\* outstanding issues a call in the same step, at the time of the start; the
\* interval set by that start fires first one period later.
C17_ImmediateCapture ==
    [][(IsStart(lastOp') /\ streamActive /\ lastOp'.frame /\ ~isProcessingRef)
         => /\ issued' = issued + 1
            /\ inflight' = {issued'}
            /\ issueLog'[issued'] = clock
            /\ due' = {clock + 1500}]_vars

\* C17 witness: a start at 1 ms, in a second Running period, issued call 2 at
\* once.
C17_Witness ==
    /\ IsStart(lastOp) /\ lastOp.call
    /\ clock = 1
    /\ issueLog = <<0, 1>>
    /\ due = {1501}
    /\ inflight = {2}

\* C18: History is newest first: of two entries the one nearer the head comes
\* from the call issued later, and timestamps do not increase from head to
\* tail.
C18_NewestFirst ==
    /\ Len(source) = Len(history)
    /\ \A i, j \in 1..Len(history) :
          i < j => /\ source[i] > source[j]
                   /\ history[i].timestamp >= history[j].timestamp

\* C18 witness: calls 1 and 3 were accepted, call 2 was not; History holds
\* the entry of call 3 before that of call 1.
C18_Witness ==
    /\ source = <<3, 1>>
    /\ Len(history) = 2
    /\ history[1].timestamp > history[2].timestamp

\* C19: the error message is set exactly when the phase is Failed.
C19_MessageIffFailed == (errorMsg # NoMsg) <=> (appState = "ERROR")

\* C19 witness: a call completed while the phase was Failed and the message
\* is still there.
C19_Witness ==
    /\ IsCompletion(lastOp)
    /\ lastOp.from = "ERROR"
    /\ appState = "ERROR"
    /\ errorMsg = CameraMsg

\* C20 as stated: a getUserMedia call is started only at mount and by the
\* retry button.
C20_AcquireOnlyOnRetry ==
    [][acquiring' > acquiring => lastOp'.name = "retry"]_vars

\* C21: History is changed only by the completion of a call whose result the
\* acceptance policy admits: every other step (start, stop, fail, a tick
\* whether it issues, is dropped or is skipped, a rejected completion, a
\* settled or retried acquisition) leaves it as it was, and an accepted
\* completion keeps every old entry unmodified, one place further from the
\* head, except the one that falls off a full History.
C21_OnlyAcceptedIngestionChanges ==
    [][/\ history' # history
            => IsCompletion(lastOp') /\ PolicyHolds(ReturnedBy(lastReply'))
       /\ \A i \in 1..Len(history) :
            \/ history' = history
            \/ i = 20
            \/ i + 1 <= Len(history') /\ history'[i + 1] = history[i]]_vars

\* C21 witness: call 1 was accepted in the first Running period and shown,
\* stop() cleared the current result, and after the start() of the second
\* Running period (which issued call 2) its entry is still in History.
C21_Witness ==
    /\ IsStart(lastOp) /\ lastOp.from = "IDLE" /\ lastOp.call
    /\ inflight = {2}
    /\ currentResult = NullValue
    /\ source = <<1>>
    /\ Len(history) = 1
    /\ history[1].result = ReturnedBy(Fist61)

====
